---- MODULE Spec2Model ----
(***************************************************************************)
(* A model of bin/run_trim_neck.py: the command runner run_command, the    *)
(* three-step pipeline trim_neck and the command-line entry point main,    *)
(* together with the part of the environment they act on (the command     *)
(* line, the file system, the two external tools).                         *)
(*                                                                         *)
(* A path is the sequence of its components ("out/sub/x" is                *)
(* <<"out","sub","x">>, the empty string is <<>>, an absolute path starts  *)
(* with the component "/").  The content of a file is the sequence of the  *)
(* tool operations that produced it, starting from an original token.      *)
(***************************************************************************)
EXTENDS Integers, Sequences, FiniteSets, TLC

VARIABLES
    verbose,            \* the module global __verbose__
    pc,                 \* position of the process in main
    argv,               \* the command line, a sequence of options
    args,               \* the namespace parse_args returned
    installed,          \* the external tools reachable through PATH
    fs,                 \* the file system: path -> entry
    fs0,                \* the file system when the process started
    base_working_dir,   \* name of the TemporaryDirectory, NoPath before it exists
    trimmed,            \* the path trim_neck returned, NoPath before
    log,                \* the run_command calls made so far, in order
    console,            \* what was printed, as a sequence of tags
    copies,             \* the shutil.copyfile calls made so far
    exitStatus          \* the exit status of the process, NotExited while it runs

vars == <<verbose, pc, argv, args, installed, fs, fs0, base_working_dir,
          trimmed, log, console, copies, exitStatus>>

-----------------------------------------------------------------------------
(* Bounds of the model *)

\* longest command line, counted in options
MaxArgs == 3

\* longest command handed to run_command when it is exercised on its own
MaxCmdLen == 2

-----------------------------------------------------------------------------
(* Paths *)

NoPath == <<"<none>">>

\* os.path.join(a, b): an absolute b discards a
Join(a, b) == IF b # <<>> /\ b[1] = "/" THEN b ELSE a \o b

\* os.path.dirname(p)
Dirname(p) == IF p = <<>> THEN <<>> ELSE SubSeq(p, 1, Len(p) - 1)

\* the paths a user may name on the command line
BrainPath == <<"brain.nii.gz">>
OutPath == <<"out", "trimmed.nii.gz">>
SubPath == <<"out", "sub", "trimmed.nii.gz">>
InputPaths == {BrainPath, OutPath}
OutputPaths == {BrainPath, OutPath, SubPath}
UserPaths == {BrainPath, OutPath, SubPath, <<"out">>, <<"out", "sub">>}

\* the name tempfile.TemporaryDirectory(suffix='t1wpreproc.tmpdir') picks
WorkDir == <<"/", "tmp", "t1wpreproc.tmpdir">>

ReorientedName == <<"input_reoriented_LPI.nii.gz">>
TrimName == <<"T1wNeckTrim.nii.gz">>
MaskName == <<"T1wNeckTrim_mask.nii.gz">>
RegionName == <<"T1wNeckTrim_region.nii.gz">>

ScratchPaths == {WorkDir} \cup
    {Join(WorkDir, n) : n \in {ReorientedName, TrimName, MaskName, RegionName}}

FsPaths == UserPaths \cup ScratchPaths

-----------------------------------------------------------------------------
(* The file system *)

Absent == [kind |-> "absent", data |-> <<>>]
Dir == [kind |-> "dir", data |-> <<>>]
File(d) == [kind |-> "file", data |-> d]

\* os.path.exists(p); os.path.exists("") is False
Exists(f, p) == p \in DOMAIN f /\ f[p].kind # "absent"

\* whether open(p, 'wb') succeeds: p is not a directory and its parent is one
\* (the empty parent is the current directory)
Writable(f, p) ==
    /\ p \in DOMAIN f
    /\ f[p].kind # "dir"
    /\ LET d == Dirname(p) IN d = <<>> \/ (d \in DOMAIN f /\ f[d].kind = "dir")

\* whether open(p, 'rb') succeeds
Readable(f, p) == p \in DOMAIN f /\ f[p].kind = "file"

\* a child exists only inside a directory
Consistent(f) ==
    \A p \in DOMAIN f :
        f[p].kind # "absent" =>
            \A i \in 1..(Len(p) - 1) :
                SubSeq(p, 1, i) \in DOMAIN f => f[SubSeq(p, 1, i)].kind = "dir"

OrigData(p) ==
    IF p = BrainPath THEN <<"orig1">>
    ELSE IF p = OutPath THEN <<"orig2">> ELSE <<"orig3">>

\* what may be at a user path when the process starts
InitialEntries(p) ==
    IF p \in {<<"out">>, <<"out", "sub">>} THEN {Absent, Dir, File(<<"junk">>)}
    ELSE IF p = OutPath THEN {Absent, Dir, File(OrigData(p))}
    ELSE {Absent, File(OrigData(p))}

InitialUserTrees ==
    {u \in [UserPaths -> {Absent, Dir, File(<<"junk">>)} \cup {File(OrigData(p)) : p \in UserPaths}] :
        /\ \A p \in UserPaths : u[p] \in InitialEntries(p)
        /\ Consistent(u)}

\* the scratch directory does not exist before the process creates it
InitialFileSystems ==
    {[p \in FsPaths |-> IF p \in UserPaths THEN u[p] ELSE Absent] : u \in InitialUserTrees}

\* os.makedirs(p): every missing ancestor is created, then p; an ancestor that
\* is a regular file makes it raise
Makedirs(f, p) ==
    IF \E i \in 1..Len(p) : SubSeq(p, 1, i) \in DOMAIN f /\ f[SubSeq(p, 1, i)].kind = "file"
    THEN [ok |-> FALSE, fs |-> f]
    ELSE [ok |-> TRUE,
          fs |-> [q \in DOMAIN f |->
                    IF \E i \in 1..Len(p) : q = SubSeq(p, 1, i) THEN Dir ELSE f[q]]]

\* shutil.copyfile(src, dst): raises when src cannot be read or dst cannot be
\* opened for writing, and then writes nothing
Copyfile(f, src, dst) ==
    IF Readable(f, src) /\ Writable(f, dst)
    THEN [ok |-> TRUE, fs |-> [f EXCEPT ![dst] = File(f[src].data)]]
    ELSE [ok |-> FALSE, fs |-> f]

\* TemporaryDirectory.cleanup(): the directory and everything in it is removed
Cleanup(f, d) ==
    [q \in DOMAIN f |->
        IF Len(q) >= Len(d) /\ SubSeq(q, 1, Len(d)) = d THEN Absent ELSE f[q]]

-----------------------------------------------------------------------------
(* The external tools, as subprocess.run sees them *)

ReturnCodes == {0, 1, -9}

\* a command whose program is not on PATH is never spawned: subprocess.run
\* raises FileNotFoundError
NotSpawned(f) ==
    [spawned |-> FALSE, returncode |-> 0, stdout |-> "", stderr |-> "", fs |-> f]

Exited(rc, f) ==
    [spawned |-> TRUE, returncode |-> rc, stdout |-> "out",
     stderr |-> IF rc = 0 THEN "" ELSE "err", fs |-> f]

\* a tool that fails leaves its output file untouched or half written
FailedRuns(f, out) ==
    {Exited(rc, f) : rc \in ReturnCodes \ {0}} \cup
    (IF Writable(f, out)
     THEN {Exited(rc, [f EXCEPT ![out] = File(<<"partial">>)]) : rc \in ReturnCodes \ {0}}
     ELSE {})

\* The tools are not part of the program.  They are taken at their word: a
\* run that exits 0 has read its input and written its output, a run that
\* cannot do so exits non-zero, and neither writes anywhere but to the paths
\* it was given.

\* c3d <in> <op> ... -o <out>: on success <out> holds <in> with <op> applied
C3dRuns(cmd, f) ==
    LET in == cmd[2]
        op == cmd[3]
        out == cmd[Len(cmd)]
    IN  FailedRuns(f, out) \cup
        (IF Readable(f, in) /\ Writable(f, out)
         THEN {Exited(0, [f EXCEPT ![out] = File(Append(f[in].data, op))])}
         ELSE {})

\* trim_neck.sh -c 20 -w <wd> <in> <out>: on success <out> holds the trimmed
\* image, and the mask and the trim region are left in <wd>
TrimNeckShRuns(cmd, f) ==
    LET wd == cmd[5]
        in == cmd[6]
        out == cmd[7]
        mask == Join(wd, MaskName)
        region == Join(wd, RegionName)
    IN  FailedRuns(f, out) \cup
        (IF Readable(f, in) /\ Writable(f, out) /\ Writable(f, mask) /\ Writable(f, region)
         THEN {Exited(0, [f EXCEPT ![out] = File(Append(f[in].data, "trim")),
                                   ![mask] = File(Append(f[in].data, "mask")),
                                   ![region] = File(Append(f[in].data, "region"))])}
         ELSE {})

\* what subprocess.run(cmd, check = False, ...) can do in file system f
Subprocess(cmd, f, inst) ==
    IF cmd[1] \notin inst THEN {NotSpawned(f)}
    ELSE IF Len(cmd) = 2 THEN {Exited(rc, f) : rc \in ReturnCodes}
    ELSE IF cmd[1] = "c3d" THEN C3dRuns(cmd, f)
    ELSE TrimNeckShRuns(cmd, f)

-----------------------------------------------------------------------------
(* run_command *)

\* ' '.join(cmd): the tokens with a blank between each two
JoinSpace(cmd) ==
    [i \in 1..(2 * Len(cmd) - 1) |-> IF i % 2 = 1 THEN cmd[(i + 1) \div 2] ELSE " "]

NoResult == [cmd_str |-> <<>>, stderr |-> "", stdout |-> ""]

\* run_command without its raise: a non-zero exit is reported on the console
\* and the record is returned all the same
RunCommandNoRaise(v, cmd, child) ==
    IF ~child.spawned
    THEN [outcome |-> "OSError", error |-> <<>>, result |-> NoResult,
          printed |-> IF v THEN <<"--- Running", "cmdline">> ELSE <<>>]
    ELSE [outcome |-> "returned", error |-> <<>>,
          result |-> [cmd_str |-> JoinSpace(cmd), stderr |-> child.stderr,
                      stdout |-> child.stdout],
          printed |-> IF child.returncode # 0
                      THEN <<"Error running command", "stack">> ELSE <<>>]

\* run_command(cmd) with __verbose__ = v, when subprocess.run behaves as child.
\* outcome is "returned" (with result), "PipelineError" (with error, the command
\* string of its message) or "OSError" (subprocess.run itself raised).
RunCommand(v, cmd, child) ==
    LET cmd_str == JoinSpace(cmd)
        before == IF v THEN <<"--- Running", "cmdline">> ELSE <<>>
        after == IF v THEN <<"--- command stdout ---", "stdout", "--- command stderr ---",
                             "stderr", "--- end">>
                      ELSE <<>>
        report == IF child.returncode # 0
                  THEN <<"Error running command", "stack">> \o
                       (IF ~v THEN <<"command stdout", "command stderr">> ELSE <<>>)
                  ELSE <<>>
    IN  IF ~child.spawned
        THEN [outcome |-> "OSError", error |-> <<>>, result |-> NoResult, printed |-> before]
        ELSE IF child.returncode # 0 /\ ~v
        THEN [outcome |-> "PipelineError", error |-> cmd_str, result |-> NoResult,
              printed |-> before \o after \o report]
        ELSE [outcome |-> "returned", error |-> <<>>,
              result |-> [cmd_str |-> cmd_str, stderr |-> child.stderr, stdout |-> child.stdout],
              printed |-> before \o after \o report]

\* the record of one run_command call kept in log
Call(step, v, cmd, child) ==
    LET r == RunCommand(v, cmd, child)
    IN  [step |-> step, verbose |-> v, cmd |-> cmd, spawned |-> child.spawned,
         returncode |-> child.returncode, outcome |-> r.outcome, error |-> r.error,
         result |-> r.result, printed |-> r.printed]

-----------------------------------------------------------------------------
(* trim_neck *)

pad_mm == 10

\* f"{pad_mm}x{pad_mm}x{pad_mm}mm"
PadSpec(pad) == <<pad, "x", pad, "x", pad, "mm">>

ReorientedImage(working_dir) == Join(working_dir, ReorientedName)

TmpImageTrim(working_dir) == Join(working_dir, TrimName)

ReorientCmd(input_image, working_dir) ==
    <<"c3d", input_image, "-swapdim", "LPI", "-o", ReorientedImage(working_dir)>>

TrimCmd(working_dir) ==
    <<"trim_neck.sh", "-c", "20", "-w", working_dir,
      ReorientedImage(working_dir), TmpImageTrim(working_dir)>>

\* a pad step that writes beside the trimmed image instead of over it
PadCmdNotInPlace(working_dir, pad) ==
    <<"c3d", TmpImageTrim(working_dir), "-pad", PadSpec(pad), PadSpec(pad), "0",
      "-o", ReorientedImage(working_dir)>>

PadCmd(working_dir, pad) ==
    <<"c3d", TmpImageTrim(working_dir), "-pad", PadSpec(pad), PadSpec(pad), "0",
      "-o", TmpImageTrim(working_dir)>>

\* a trim_neck that returns the reoriented image
TrimNeckReturnReoriented(working_dir) == ReorientedImage(working_dir)

\* the value trim_neck returns
TrimNeckReturn(working_dir) == TmpImageTrim(working_dir)

-----------------------------------------------------------------------------
(* Argument parsing *)

HelpOpt == [opt |-> "help", val |-> <<>>]
Options ==
    {[opt |-> "input", val |-> p] : p \in InputPaths} \cup
    {[opt |-> "output", val |-> p] : p \in OutputPaths} \cup {HelpOpt}

CommandLines == UNION {[1..n -> Options] : n \in 0..MaxArgs}

NoArgs == [input |-> NoPath, output |-> NoPath]

\* parser.parse_args(): options are taken left to right, a later one replaces
\* an earlier one, -h prints the help and exits 0 where it stands, and a
\* required option still missing at the end is an error (exit 2)
RECURSIVE ParseFrom(_, _, _)
ParseFrom(av, i, ns) ==
    IF i > Len(av)
    THEN IF ns.input = NoPath \/ ns.output = NoPath
         THEN [status |-> "error", code |-> 2, ns |-> ns]
         ELSE [status |-> "ok", code |-> 0, ns |-> ns]
    ELSE IF av[i].opt = "help" THEN [status |-> "help", code |-> 0, ns |-> ns]
    ELSE IF av[i].opt = "input" THEN ParseFrom(av, i + 1, [ns EXCEPT !.input = av[i].val])
    ELSE ParseFrom(av, i + 1, [ns EXCEPT !.output = av[i].val])

ParseArgs(av) == ParseFrom(av, 1, NoArgs)

\* a module that starts out verbose
InitVerboseOn == TRUE

\* the value of __verbose__ when the module is loaded
InitVerbose == FALSE

\* the value of __verbose__ after main has parsed namespace ns: main declares
\* the global and never assigns it
VerboseAfterParse(v, ns) == v

-----------------------------------------------------------------------------
(* main *)

Tools == {"c3d", "trim_neck.sh"}

Init ==
    /\ verbose = InitVerbose
    /\ pc = "parse_args"
    /\ argv \in CommandLines
    /\ args = NoArgs
    /\ installed \in SUBSET Tools
    /\ fs \in InitialFileSystems
    /\ fs0 = fs
    /\ base_working_dir = NoPath
    /\ trimmed = NoPath
    /\ log = <<>>
    /\ console = <<>>
    /\ copies = <<>>
    /\ exitStatus = <<>>

\* the process is on its way out with this status: sys.exit(status), or an
\* exception nobody catches (status 1, after a traceback)
Leave(status) ==
    /\ pc' = "exiting"
    /\ exitStatus' = <<status>>

\* args = parser.parse_args()
ParseArguments ==
    /\ pc = "parse_args"
    /\ LET r == ParseArgs(argv)
       IN  /\ args' = r.ns
           /\ verbose' = VerboseAfterParse(verbose, r.ns)
           /\ IF r.status = "ok"
              THEN /\ pc' = "probe_c3d"
                   /\ console' = console
                   /\ exitStatus' = exitStatus
              ELSE /\ Leave(r.code)
                   /\ console' = Append(console, IF r.status = "help" THEN "help" ELSE "usage")
    /\ UNCHANGED <<argv, installed, fs, fs0, base_working_dir, trimmed, log, copies>>

\* a probe handler that prints its message and does not exit
AfterCallSwallow(outcome, caught, next) ==
    IF outcome = "returned" \/ (caught /\ outcome = "PipelineError") THEN next ELSE "exiting"

\* where main stands after a run_command call that ended with outcome: a call
\* that returned goes on to next; PipelineError caught by the handler of a
\* probe ends in sys.exit(1), and every exception nobody catches ends the
\* process too
AfterCall(outcome, caught, next) ==
    IF outcome = "returned" THEN next ELSE "exiting"

\* one run_command(cmd) of main or trim_neck at position step. caught: the
\* call stands in a try that catches PipelineError, prints msg and exits 1.
\* Any other exception, and PipelineError outside a try, ends the process
\* with a traceback.
RunStep(step, cmd, caught, msg, next) ==
    /\ pc = step
    /\ \E child \in Subprocess(cmd, fs, installed) :
        LET c == Call(step, verbose, cmd, child)
        IN  /\ log' = Append(log, c)
            /\ fs' = child.fs
            /\ IF AfterCall(c.outcome, caught, next) = "exiting"
               THEN /\ Leave(1)
                    /\ console' = console \o c.printed \o
                          (IF caught /\ c.outcome = "PipelineError"
                           THEN <<msg>> ELSE <<"Traceback">>)
               ELSE /\ pc' = AfterCall(c.outcome, caught, next)
                    /\ console' = console \o c.printed
                    /\ exitStatus' = exitStatus

ProbeC3d ==
    /\ RunStep("probe_c3d", <<"c3d", "-h">>, TRUE, "Could not run c3d, check PATH", "probe_trim")
    /\ UNCHANGED <<verbose, argv, args, installed, fs0, base_working_dir, trimmed, copies>>

ProbeTrimNeck ==
    /\ RunStep("probe_trim", <<"trim_neck.sh", "-h">>, TRUE,
               "Could not run trim_neck.sh, check PATH", "mktemp")
    /\ UNCHANGED <<verbose, argv, args, installed, fs0, base_working_dir, trimmed, copies>>

\* base_working_dir_tmpdir = tempfile.TemporaryDirectory(...)
MakeTemp ==
    /\ pc = "mktemp"
    /\ base_working_dir' = WorkDir
    /\ fs' = [fs EXCEPT ![WorkDir] = Dir]
    /\ pc' = "check_input"
    /\ UNCHANGED <<verbose, argv, args, installed, fs0, trimmed, log, console, copies, exitStatus>>

\* a main that does not look at the input path
InputCheckDropped(f, input) == FALSE

\* the condition under which main gives up on the input
InputMissing(f, input) == ~Exists(f, input)

\* if not os.path.exists(args.input): ... sys.exit(1)
CheckInput ==
    /\ pc = "check_input"
    /\ IF InputMissing(fs, args.input)
       THEN /\ Leave(1)
            /\ console' = Append(console, "Input image does not exist")
       ELSE /\ pc' = "make_output_dir"
            /\ UNCHANGED <<console, exitStatus>>
    /\ UNCHANGED <<verbose, argv, args, installed, fs, fs0, base_working_dir, trimmed, log, copies>>

\* a main that never creates the output directory
NeedsMakedirsNever(f, output_dir) == FALSE

\* whether main calls os.makedirs(output_dir)
NeedsMakedirs(f, output_dir) == Len(output_dir) > 0 /\ ~Exists(f, output_dir)

\* output_dir = os.path.dirname(args.output); os.makedirs(output_dir) if needed
MakeOutputDir ==
    /\ pc = "make_output_dir"
    /\ LET output_dir == Dirname(args.output)
       IN  IF NeedsMakedirs(fs, output_dir)
           THEN LET m == Makedirs(fs, output_dir)
                IN  /\ fs' = m.fs
                    /\ IF m.ok
                       THEN /\ pc' = "reorient"
                            /\ UNCHANGED <<console, exitStatus>>
                       ELSE /\ Leave(1)
                            /\ console' = Append(console, "Traceback")
           ELSE /\ pc' = "reorient"
                /\ UNCHANGED <<fs, console, exitStatus>>
    /\ UNCHANGED <<verbose, argv, args, installed, fs0, base_working_dir, trimmed, log, copies>>

\* trim_neck, first call
Reorient ==
    /\ RunStep("reorient", ReorientCmd(args.input, base_working_dir), FALSE, "", "trim")
    /\ UNCHANGED <<verbose, argv, args, installed, fs0, base_working_dir, trimmed, copies>>

\* trim_neck, second call
Trim ==
    /\ RunStep("trim", TrimCmd(base_working_dir), FALSE, "", "pad")
    /\ UNCHANGED <<verbose, argv, args, installed, fs0, base_working_dir, trimmed, copies>>

\* trim_neck, third call, and its return
Pad ==
    /\ RunStep("pad", PadCmd(base_working_dir, pad_mm), FALSE, "", "copy")
    /\ trimmed' = IF pc' = "copy" THEN TrimNeckReturn(base_working_dir) ELSE trimmed
    /\ UNCHANGED <<verbose, argv, args, installed, fs0, base_working_dir, copies>>

\* shutil.copyfile(trimmed, args.output), the last statement of main
CopyOut ==
    /\ pc = "copy"
    /\ LET c == Copyfile(fs, trimmed, args.output)
       IN  /\ fs' = c.fs
           /\ copies' = Append(copies, [src |-> trimmed, dst |-> args.output, ok |-> c.ok,
                                        before |-> fs])
           /\ IF c.ok
              THEN /\ Leave(0)
                   /\ console' = console
              ELSE /\ Leave(1)
                   /\ console' = Append(console, "Traceback")
    /\ UNCHANGED <<verbose, argv, args, installed, fs0, base_working_dir, trimmed, log>>

\* a scratch directory nobody removes (tempfile.mkdtemp)
FinalizeKeep(f, d) == f

\* what the TemporaryDirectory's finalizer does to the file system when the
\* interpreter lets go of the object
Finalize(f, d) == IF d = NoPath THEN f ELSE Cleanup(f, d)

\* the interpreter shuts down; the process is gone with exitStatus
Terminate ==
    /\ pc = "exiting"
    /\ fs' = Finalize(fs, base_working_dir)
    /\ pc' = "exited"
    /\ UNCHANGED <<verbose, argv, args, installed, fs0, base_working_dir, trimmed, log,
                   console, copies, exitStatus>>

Next ==
    \/ ParseArguments
    \/ ProbeC3d
    \/ ProbeTrimNeck
    \/ MakeTemp
    \/ CheckInput
    \/ MakeOutputDir
    \/ Reorient
    \/ Trim
    \/ Pad
    \/ CopyOut
    \/ Terminate

Spec == Init /\ [][Next]_vars

-----------------------------------------------------------------------------
(* run_command on its own: any command, either value of __verbose__, any     *)
(* behaviour of the child                                                     *)

CmdTokens == {"c3d", "trim_neck.sh", "-h"}

Commands == UNION {[1..n -> CmdTokens] : n \in 1..MaxCmdLen}

Streams == {"", "text"}

Children ==
    {[spawned |-> s, returncode |-> rc, stdout |-> o, stderr |-> e, fs |-> fs] :
        s \in BOOLEAN, rc \in ReturnCodes, o \in Streams, e \in Streams}

InitRC ==
    /\ verbose \in BOOLEAN
    /\ pc = "run_command"
    /\ argv = <<>>
    /\ args = NoArgs
    /\ installed = Tools
    /\ fs = [p \in FsPaths |-> Absent]
    /\ fs0 = fs
    /\ base_working_dir = NoPath
    /\ trimmed = NoPath
    /\ log = <<>>
    /\ console = <<>>
    /\ copies = <<>>
    /\ exitStatus = <<>>

CallRunCommand ==
    /\ pc = "run_command"
    /\ \E cmd \in Commands, child \in Children :
        LET c == Call("run_command", verbose, cmd, child)
        IN  /\ log' = Append(log, c)
            /\ console' = console \o c.printed
            /\ pc' = c.outcome
    /\ UNCHANGED <<verbose, argv, args, installed, fs, fs0, base_working_dir, trimmed,
                   copies, exitStatus>>

NextRC == CallRunCommand

SpecRC == InitRC /\ [][NextRC]_vars

-----------------------------------------------------------------------------
(* Vocabulary of the properties *)

ProbeSteps == {"probe_c3d", "probe_trim"}
PipelineSteps == {"reorient", "trim", "pad"}
StepOrder == <<"probe_c3d", "probe_trim", "reorient", "trim", "pad">>

\* the child of call c ran and exited with a non-zero status
ExitedNonZero(c) == c.spawned /\ c.returncode # 0

\* the child of call c ran and exited with status zero
ExitedZero(c) == c.spawned /\ c.returncode = 0

Leaving == pc \in {"exiting", "exited"}

\* nothing the user can see in the file system has changed
UserTreeUntouched == \A p \in UserPaths : fs[p] = fs0[p]

\* the calls of log made at step
CallsAt(step) == {i \in 1..Len(log) : log[i].step = step}

-----------------------------------------------------------------------------
(* C1  run_command *)

\* C1 (as claimed): for either value of __verbose__, a run_command call whose
\* child exits non-zero fails with a PipelineError carrying the command string
\* and returns no record; a record {cmd_str, stdout, stderr} is returned only
\* when the exit status is zero.
C1_NonZeroExitRaises ==
    \A i \in 1..Len(log) :
        /\ ExitedNonZero(log[i]) =>
              /\ log[i].outcome = "PipelineError"
              /\ log[i].error = JoinSpace(log[i].cmd)
              /\ log[i].result = NoResult
        /\ log[i].outcome = "returned" => ExitedZero(log[i])

-----------------------------------------------------------------------------
(* C2  a failing pipeline step *)

FailedPipelineStep == \E i \in 1..Len(log) : log[i].step \in PipelineSteps /\ ExitedNonZero(log[i])

\* C2: once one of reorient, trim, pad has exited non-zero (both probes having
\* succeeded and the input existing), the process is on its way out with a
\* non-zero status, no copy to the output path is ever made and the output path
\* holds what it held when the process started.
C2_FailedStepNoCopy ==
    FailedPipelineStep =>
        /\ Leaving
        /\ exitStatus # <<>> /\ exitStatus # <<0>>
        /\ copies = <<>>
        /\ fs[args.output] = fs0[args.output]

\* C2 witness: the process has terminated after pad, the last step, exited
\* non-zero, with the two earlier steps successful.
C2_Witness ==
    /\ pc = "exited"
    /\ Len(log) = 5
    /\ log[5].step = "pad" /\ ExitedNonZero(log[5])
    /\ fs0[args.output].kind = "file"

-----------------------------------------------------------------------------
(* C3  the published image *)

\* the output path holds the trimmed image as the pad step left it in the
\* scratch directory: the input reoriented, trimmed and padded
OutputIsPaddedImage ==
    /\ Len(copies) = 1
    /\ args.output \in DOMAIN fs
    /\ fs[args.output].kind = "file"
    /\ LET before == copies[1].before
           final == before[Join(base_working_dir, TrimName)]
       IN  /\ fs[args.output] = final
           /\ final.data = fs0[args.input].data \o <<"-swapdim", "trim", "-pad">>
           /\ final # before[Join(base_working_dir, ReorientedName)]
           /\ final # before[Join(base_working_dir, MaskName)]
           /\ final # before[Join(base_working_dir, RegionName)]

\* C3 (as claimed): every run of main that was given an input and an output
\* path and ends with exit status 0 leaves the padded trimmed image at the
\* user-specified output path.
C3_ExitZeroHasOutput ==
    (pc = "exited" /\ exitStatus = <<0>> /\ args.input # NoPath /\ args.output # NoPath)
        => OutputIsPaddedImage

\* C3 (amended): every run of main that ends with exit status 0 and was not a
\* help request (-h / --help) leaves the padded trimmed image at the
\* user-specified output path.
C3_SuccessHasOutput ==
    (pc = "exited" /\ exitStatus = <<0>> /\ ParseArgs(argv).status # "help")
        => OutputIsPaddedImage

\* C3 witness: a run that ended with status 0 after copying over an output file
\* that existed before.
C3_Witness ==
    /\ pc = "exited"
    /\ exitStatus = <<0>>
    /\ ParseArgs(argv).status = "ok"
    /\ fs0[args.output].kind = "file"
    /\ fs[args.output] # fs0[args.output]

-----------------------------------------------------------------------------
(* C4  a tool that cannot be run *)

ProbeFailed ==
    \E i \in 1..Len(log) : log[i].step \in ProbeSteps /\ ~ExitedZero(log[i])

\* C4: once the probe of c3d or of trim_neck.sh has failed (the tool could not
\* be started, or its help invocation exited non-zero), the process is on its
\* way out with status 1, none of reorient, trim, pad has run or will run, no
\* copy is made, and no user-visible path (the output path and its directories
\* included) has been created or modified.
C4_ProbeFailureStops ==
    ProbeFailed =>
        /\ Leaving
        /\ exitStatus = <<1>>
        /\ \A i \in 1..Len(log) : log[i].step \in ProbeSteps
        /\ copies = <<>>
        /\ UserTreeUntouched

\* C4 witness: the process has terminated after c3d answered its probe and
\* trim_neck.sh failed its own, with an output directory still to create.
C4_Witness ==
    /\ pc = "exited"
    /\ Len(log) = 2
    /\ ExitedZero(log[1])
    /\ ExitedNonZero(log[2])
    /\ ~Exists(fs0, Dirname(args.output))
    /\ Len(Dirname(args.output)) > 0

-----------------------------------------------------------------------------
(* C5  a missing input *)

ProbesSucceeded ==
    /\ Len(log) >= 2
    /\ ExitedZero(log[1])
    /\ ExitedZero(log[2])

\* C5: when both probes succeeded and the input path does not exist, main gets
\* no further than its input check: it exits with status 1, no pipeline step
\* runs, no copy is made, and nothing user-visible, not even the output
\* directory, is created.
C5_MissingInputStops ==
    (ProbesSucceeded /\ ~Exists(fs0, args.input)) =>
        /\ pc \in {"mktemp", "check_input", "exiting", "exited"}
        /\ Leaving => exitStatus = <<1>>
        /\ Len(log) = 2
        /\ copies = <<>>
        /\ UserTreeUntouched

\* C5 witness: the process has terminated on a missing input while the output
\* directory did not exist.
C5_Witness ==
    /\ pc = "exited"
    /\ ProbesSucceeded
    /\ ~Exists(fs0, args.input)
    /\ Len(Dirname(args.output)) > 0
    /\ ~Exists(fs0, Dirname(args.output))

-----------------------------------------------------------------------------
(* C6  the scratch directory *)

\* C6: after the process has terminated nothing of the scratch directory is
\* left, whichever way it ended; while the process runs, a scratch directory
\* that was created is still there, and it was there when the copy was made.
C6_ScratchRemovedAtExit ==
    /\ pc = "exited" => \A p \in ScratchPaths : fs[p] = Absent
    /\ (base_working_dir # NoPath /\ pc # "exited") => fs[base_working_dir] = Dir
    /\ \A i \in 1..Len(copies) :
          /\ copies[i].before[base_working_dir] = Dir
          /\ pc # "exited" => fs[base_working_dir] = Dir

\* C6 witness: the process has terminated after a step failed in a scratch
\* directory that held intermediate files.
C6_Witness ==
    /\ pc = "exited"
    /\ base_working_dir # NoPath
    /\ Len(log) = 5
    /\ exitStatus = <<1>>

-----------------------------------------------------------------------------
(* C7  the output directory *)

\* C7: a non-empty, missing directory part of the output path has been created
\* by the time the pipeline starts, so that at every copy the parent of the
\* output path exists; an output path without a directory part triggers no
\* directory creation.
C7_OutputDirBeforeCopy ==
    /\ \A i \in 1..Len(copies) :
          LET d == Dirname(copies[i].dst)
          IN  /\ d = <<>> \/ Exists(copies[i].before, d)
              /\ copies[i].ok => (d = <<>> \/ copies[i].before[d] = Dir)
    /\ pc \in {"reorient", "trim", "pad", "copy"} =>
          LET d == Dirname(args.output)
          IN  /\ (Len(d) > 0 /\ ~Exists(fs0, d)) => fs[d] = Dir
              /\ Len(d) = 0 => UserTreeUntouched

\* C7 witness: the copy was made into a directory that main had to create,
\* together with its parent.
C7_Witness ==
    /\ Len(copies) = 1
    /\ copies[1].ok
    /\ copies[1].dst = SubPath
    /\ ~Exists(fs0, <<"out">>)

-----------------------------------------------------------------------------
(* C8  the order of the invocations *)

\* C8: the invocations made so far are the first ones of probe-c3d,
\* probe-trim_neck.sh, reorient, trim, pad, in that order and each once; all
\* but the last have completed with exit status zero; after one that did not,
\* the process is on its way out; and a copy is made, at most once, only after
\* all five have completed with exit status zero.
C8_InvocationOrder ==
    /\ Len(log) <= Len(StepOrder)
    /\ \A i \in 1..Len(log) : log[i].step = StepOrder[i]
    /\ \A i \in 1..(Len(log) - 1) : ExitedZero(log[i])
    /\ (Len(log) > 0 /\ ~ExitedZero(log[Len(log)])) => Leaving
    /\ Len(copies) <= 1
    /\ copies # <<>> => (Len(log) = 5 /\ ExitedZero(log[5]))

\* C8 witness: all five invocations were made and the copy followed.
C8_Witness ==
    /\ Len(log) = 5
    /\ Len(copies) = 1
    /\ pc = "exited"

-----------------------------------------------------------------------------
(* C9  path chaining *)

\* C9: reorient reads the user's input and writes the reoriented image; trim
\* reads that path and writes the trimmed image; pad reads and writes that
\* path; trim_neck returns it and main copies from it.  The three paths
\* written lie in the working directory, and until the copy the user's input
\* holds what it held at the start.
C9_PathChaining ==
    /\ \A i \in CallsAt("reorient") :
          /\ log[i].cmd[2] = args.input
          /\ Dirname(log[i].cmd[6]) = base_working_dir
          /\ log[i].cmd[6] # args.input
    /\ \A i \in CallsAt("trim") :
          /\ log[i].cmd[5] = base_working_dir
          /\ log[i].cmd[6] = log[i - 1].cmd[6]
          /\ Dirname(log[i].cmd[7]) = base_working_dir
          /\ log[i].cmd[7] # log[i].cmd[6]
          /\ log[i].cmd[7] # args.input
    /\ \A i \in CallsAt("pad") :
          /\ log[i].cmd[2] = log[i - 1].cmd[7]
          /\ log[i].cmd[8] = log[i].cmd[2]
          /\ pc = "copy" => trimmed = log[i].cmd[8]
    /\ \A i \in 1..Len(copies) : copies[i].src = log[5].cmd[8]
    /\ (copies = <<>> /\ args.input \in DOMAIN fs) => fs[args.input] = fs0[args.input]

\* C9 witness: the copy has been made from the path pad wrote, in a run whose
\* output path is its input path.
C9_Witness ==
    /\ Len(copies) = 1
    /\ copies[1].ok
    /\ copies[1].src = Join(WorkDir, TrimName)
    /\ args.input = args.output

-----------------------------------------------------------------------------
(* C10  the verbosity flag *)

====
